---- MODULE Spec2Model ----
(***************************************************************************)
(* Cost Manager: the IndexedDB wrapper (vanilla-idb/idb.js and the React   *)
(* copy of it kept in src/lib/idb), its currency conversion, its monthly   *)
(* report, and the Charts component that builds yearly totals with it.     *)
(*                                                                         *)
(* JavaScript numbers are modelled as exact rationals n/d plus the         *)
(* non-finite values NaN, +Infinity, -Infinity and the value undefined     *)
(* (a missing key of the rate table).  Binary floating-point error of      *)
(* the order of one ulp is not modelled.                                   *)
(***************************************************************************)
EXTENDS Integers, Sequences, FiniteSets, TLC

VARIABLES
    variant,    \* which copy of the wrapper is loaded: "vanilla" or "react"
    db,         \* DB_STATE.db / dbInstance: the database the connection is to, or NoDb
    opens,      \* the openCostsDB calls, in call order
    backend,    \* by database name: its version and its object stores with their indexes
    store,      \* by database name: the committed records of object store "costs", in key order
    txq,        \* the IndexedDB transactions not yet finished, in creation order
    adds,       \* the addCost calls, in call order
    reps,       \* the getReport calls, in call order
    clock,      \* index into Dates: the wall-clock date
    cv,         \* a conversion under test: inputs, result and result of the way back
    charts,     \* the Charts component: its props, its state and the position of its effects
    localStorage,   \* window.localStorage: a function from its keys to their texts
    dialog,     \* the SettingsDialog component: whether it is open, and its text field
    app,        \* the App component: its state and its refreshReport calls in progress
    form        \* the AddCostForm component: its fields, its status and its submit in progress

uiVars == <<localStorage, dialog, app, form>>

vars == <<variant, db, opens, backend, store, txq, adds, reps, clock, cv, charts, uiVars>>

appVars == <<variant, db, opens, backend, store, txq, adds, reps, clock, charts, uiVars>>

-----------------------------------------------------------------------------
(* JavaScript numbers *)

Abs(n) == IF n < 0 THEN 0 - n ELSE n

Sgn(n) == IF n < 0 THEN 0 - 1 ELSE IF n = 0 THEN 0 ELSE 1

RECURSIVE GCD(_, _)
GCD(a, b) == IF b = 0 THEN a ELSE GCD(b, a % b)

\* the finite number n/d (d > 0), in lowest terms
Rat(n, d) ==
    LET g == GCD(Abs(n), d)
    IN  [k |-> "num", n |-> n \div g, d |-> d \div g]

Int2Num(n) == Rat(n, 1)

NaN == [k |-> "nan", n |-> 0, d |-> 1]

PosInf == [k |-> "inf", n |-> 1, d |-> 1]

NegInf == [k |-> "inf", n |-> 0 - 1, d |-> 1]

Undefined == [k |-> "undef", n |-> 0, d |-> 1]

IsFinite(x) == x.k = "num"

IsNotANumber(x) == x.k \in {"nan", "undef"}

Inf(sign) == IF sign < 0 THEN NegInf ELSE PosInf

\* a / b
Div(a, b) ==
    IF IsNotANumber(a) \/ IsNotANumber(b) THEN NaN
    ELSE IF a.k = "num" /\ b.k = "num" THEN
        IF b.n = 0
        THEN (IF a.n = 0 THEN NaN ELSE Inf(a.n))
        ELSE Rat(a.n * b.d * Sgn(b.n), a.d * Abs(b.n))
    ELSE IF a.k = "num" THEN Int2Num(0)
    ELSE IF b.k = "num" THEN Inf(a.n * (IF b.n < 0 THEN 0 - 1 ELSE 1))
    ELSE NaN

\* a * b
Mul(a, b) ==
    IF IsNotANumber(a) \/ IsNotANumber(b) THEN NaN
    ELSE IF a.k = "num" /\ b.k = "num" THEN Rat(a.n * b.n, a.d * b.d)
    ELSE IF a.n = 0 \/ b.n = 0 THEN NaN
    ELSE Inf(Sgn(a.n) * Sgn(b.n))

\* a + b
Add(a, b) ==
    IF IsNotANumber(a) \/ IsNotANumber(b) THEN NaN
    ELSE IF a.k = "num" /\ b.k = "num" THEN Rat(a.n * b.d + b.n * a.d, a.d * b.d)
    ELSE IF a.k = "num" THEN b
    ELSE IF b.k = "num" THEN a
    ELSE IF a.n = b.n THEN a
    ELSE NaN

\* a <= b, for finite numbers
Leq(a, b) == a.n * b.d <= b.n * a.d

\* Math.round: the nearest integer, a half rounded towards +Infinity
MathRound(x) ==
    IF IsFinite(x) THEN Int2Num((2 * x.n + x.d) \div (2 * x.d))
    ELSE IF x.k = "undef" THEN NaN ELSE x

\* rates[code]: undefined when the table has no such key
Lookup(rates, code) == IF code \in DOMAIN rates THEN rates[code] ELSE Undefined

-----------------------------------------------------------------------------
(* Currency conversion *)

\* mutants of convertAmount
convertAmountTruncated(amount, from, to, rates) ==
    LET usd == Div(amount, Lookup(rates, from))
        x   == Mul(Mul(usd, Lookup(rates, to)), Int2Num(100))
    IN  IF IsFinite(x) THEN Div(Int2Num(x.n \div x.d), Int2Num(100)) ELSE x

convertAmountSwapped(amount, from, to, rates) ==
    LET usd == Div(amount, Lookup(rates, to))
    IN  Div(MathRound(Mul(Mul(usd, Lookup(rates, from)), Int2Num(100))), Int2Num(100))

\* var usd = amount / rates[from]; return Math.round(usd * rates[to] * 100) / 100;
convertAmount(amount, from, to, rates) ==
    LET usd == Div(amount, Lookup(rates, from))
    IN  Div(MathRound(Mul(Mul(usd, Lookup(rates, to)), Int2Num(100))), Int2Num(100))

\* the four supported currency codes
CURRENCIES == {"USD", "ILS", "GBP", "EURO"}

\* the table served by server.js
ReferenceRates ==
    [c \in CURRENCIES |->
        CASE c = "USD"  -> Rat(1, 1)
          [] c = "GBP"  -> Rat(6, 10)
          [] c = "EURO" -> Rat(7, 10)
          [] c = "ILS"  -> Rat(34, 10)]

\* another well-formed table
OtherRates ==
    [c \in CURRENCIES |->
        CASE c = "USD"  -> Rat(1, 1)
          [] c = "GBP"  -> Rat(1, 2)
          [] c = "EURO" -> Rat(4, 5)
          [] c = "ILS"  -> Rat(3, 1)]

\* a table with a zero rate
ZeroRates == [ReferenceRates EXCEPT !["GBP"] = Int2Num(0)]

\* a table that lacks a supported code
PartialRates == [c \in {"USD", "ILS"} |-> ReferenceRates[c]]

RateTables == {ReferenceRates, OtherRates, ZeroRates, PartialRates}

\* the tables the rate source serves while reports are built
SourceTables == {ReferenceRates, OtherRates, PartialRates}

\* the tables the rate-source protocol allows: every code present, every rate positive
WellFormed(rates) ==
    /\ CURRENCIES \subseteq DOMAIN rates
    /\ \A c \in CURRENCIES : IsFinite(rates[c]) /\ rates[c].n > 0

-----------------------------------------------------------------------------
(* Bounds and inputs *)

MaxOpens == 1

MaxCosts == 2

MaxReports == 1

MaxCents == 12

DB_NAME == "costsdb"

\* another database name openCostsDB can be called with
OTHER_NAME == "otherdb"

DbNames == {DB_NAME, OTHER_NAME}

DB_VERSION == 1

NoDb == "null"

NoValue == [none |-> TRUE]

\* wall-clock dates at which the program runs, in order
Dates ==
    << [year |-> 2024, month |-> 12, day |-> 31],
       [year |-> 2025, month |-> 11, day |-> 30],
       [year |-> 2025, month |-> 12, day |-> 5] >>

\* arguments of addCost
CostInputs ==
    { [sum |-> Int2Num(100), currency |-> "USD",  category |-> "Food", description |-> "lunch"],
      [sum |-> Int2Num(50),  currency |-> "GBP",  category |-> "Car",  description |-> "fuel"],
      [sum |-> Int2Num(70),  currency |-> "EURO", category |-> "Food", description |-> "dinner"] }

\* amounts handed to convertAmount: every whole number of cents up to MaxCents either
\* side of zero, the amounts of the reference scenario, and amounts below one cent
ConvAmounts ==
    { Rat(n, 100) : n \in (0 - MaxCents)..MaxCents }
        \cup { Int2Num(100), Int2Num(340), Rat(1, 8), Rat(0 - 1, 8), Rat(1005, 1000) }

\* currency codes handed to convertAmount: the supported ones and an unknown one
ConvCodes == CURRENCIES \cup {"XYZ"}

\* (year, month) pairs a report is asked for
ReportMonths == { <<2024, 12>>, <<2025, 12>> }

\* target currencies a report is asked in
ReportCurrencies == {"USD", "ILS"}

-----------------------------------------------------------------------------
(* Opening the database *)

\* mutant of CostsStore: the object store created without its index
CostsStoreNoIndex ==
    [name |-> "costs", keyPath |-> "id", autoIncrement |-> TRUE, indexes |-> {}]

\* db.createObjectStore("costs", {keyPath: "id", autoIncrement: true}) and
\* store.createIndex("yearMonth", ["year", "month"], {unique: false})
CostsStore ==
    [name |-> "costs", keyPath |-> "id", autoIncrement |-> TRUE,
     indexes |-> { [name |-> "yearMonth", keyPath |-> <<"year", "month">>, unique |-> FALSE] }]

StoreNames(name) == { s.name : s \in backend[name].stores }

\* a successful open has handed {addCost, getReport} to the caller
HasHandle == \E i \in 1..Len(opens) : opens[i].state = "resolved"

\* openCostsDB(name, DB_VERSION): indexedDB.open is requested
OpenRequest(name) ==
    opens' = Append(opens, [name |-> name, state |-> "pending", upgraded |-> FALSE])

\* openCostsDB called by code that keeps no state of its own across the call
OpenDB(name) ==
    /\ OpenRequest(name)
    /\ UNCHANGED <<variant, db, backend, store, txq, adds, reps, clock, cv, charts, uiVars>>

\* the application's call, openCostsDB(DB_NAME, DB_VERSION)
OpenCall ==
    /\ Len(opens) < MaxOpens
    /\ OpenDB(DB_NAME)

\* the application's call made once, by the effect that runs when App is first rendered
AppOpen ==
    /\ opens = <<>>
    /\ OpenDB(DB_NAME)

\* request.onupgradeneeded: the backend is at a lower version
OpenUpgradeNeeded(i) ==
    /\ opens[i].state = "pending"
    /\ backend[opens[i].name].version < DB_VERSION
    /\ \A j \in 1..Len(opens) : opens[j].state = "pending" => i <= j
    /\ backend' = [backend EXCEPT ![opens[i].name] =
                      [version |-> DB_VERSION,
                       stores  |-> IF "costs" \in StoreNames(opens[i].name)
                                   THEN @.stores
                                   ELSE @.stores \cup {CostsStore}]]
    /\ opens' = [opens EXCEPT ![i].upgraded = TRUE]
    /\ UNCHANGED <<variant, db, store, txq, adds, reps, clock, cv, charts, uiVars>>

\* request.onsuccess: DB_STATE.db is set and the handle is resolved
OpenSuccess(i) ==
    /\ opens[i].state = "pending"
    /\ backend[opens[i].name].version = DB_VERSION
    /\ \A j \in 1..Len(opens) : opens[j].state = "pending" => i <= j
    /\ db' = opens[i].name
    /\ opens' = [opens EXCEPT ![i].state = "resolved"]
    /\ UNCHANGED <<variant, backend, store, txq, adds, reps, clock, cv, charts, uiVars>>

\* an open request that fails and hands out the handle all the same
OpenErrorYieldsHandle(i) ==
    /\ opens[i].state = "pending"
    /\ opens' = [opens EXCEPT ![i].state = "resolved"]
    /\ UNCHANGED <<variant, db, backend, store, txq, adds, reps, clock, cv, charts, uiVars>>

\* request.onerror: reject(request.error); an upgrade made by this request is undone
OpenError(i) ==
    /\ opens[i].state = "pending"
    /\ \A j \in 1..Len(opens) : opens[j].state = "pending" => i <= j
    /\ opens' = [opens EXCEPT ![i].state = "rejected"]
    /\ backend' = IF opens[i].upgraded
                  THEN [backend EXCEPT ![opens[i].name] = [version |-> 0, stores |-> {}]]
                  ELSE backend
    /\ UNCHANGED <<variant, db, store, txq, adds, reps, clock, cv, charts, uiVars>>

-----------------------------------------------------------------------------
(* addCost *)

Today == Dates[clock]

\* the item addCost builds from its argument and the current date
NewItem(cost) ==
    [sum |-> cost.sum, currency |-> cost.currency, category |-> cost.category,
     description |-> cost.description,
     year |-> Today.year, month |-> Today.month, day |-> Today.day,
     Date |-> [day |-> Today.day]]

\* the record the object store keeps: the item with the generated key at keyPath "id"
Stored(item, id) ==
    [id |-> id, sum |-> item.sum, currency |-> item.currency, category |-> item.category,
     description |-> item.description, year |-> item.year, month |-> item.month,
     day |-> item.day, Date |-> item.Date]

\* what addCost resolves with
AddResult(item) ==
    IF variant = "vanilla"
    THEN [sum |-> item.sum, currency |-> item.currency, category |-> item.category,
          description |-> item.description, Date |-> [day |-> item.day]]
    ELSE item

\* addCost(cost) called on the handle openCostsDB call h resolved with: a readwrite
\* transaction on "costs" is created on DB_STATE.db and store.add(item) requested
AddCostRequest(h, cost) ==
    /\ opens[h].state = "resolved"
    /\ adds' = Append(adds, [handle |-> h, state |-> "pending", item |-> NewItem(cost),
                             value |-> NoValue])
    /\ txq' = Append(txq, [mode |-> "readwrite", call |-> Len(adds) + 1, phase |-> "active",
                           conn |-> db])

\* addCost called by code that keeps no state of its own across the call
AddCostOn(h, cost) ==
    /\ AddCostRequest(h, cost)
    /\ UNCHANGED <<variant, db, opens, backend, store, reps, clock, cv, charts, uiVars>>

\* the application's call, on the handle it holds
AddCostCall(cost) ==
    /\ Len(adds) < MaxCosts
    /\ \E h \in 1..Len(opens) : AddCostOn(h, cost)

\* req.onsuccess: the promise is resolved; the transaction has not committed yet
AddReqSuccess ==
    /\ txq # <<>>
    /\ Head(txq).mode = "readwrite"
    /\ Head(txq).phase = "active"
    /\ adds' = [adds EXCEPT ![Head(txq).call].state = "resolved",
                            ![Head(txq).call].value = AddResult(adds[Head(txq).call].item)]
    /\ txq' = <<[Head(txq) EXCEPT !.phase = "committing"]>> \o Tail(txq)
    /\ UNCHANGED <<variant, db, opens, backend, store, reps, clock, cv, charts, uiVars>>

\* req.onerror: reject(req.error); the transaction aborts
AddReqError ==
    /\ txq # <<>>
    /\ Head(txq).mode = "readwrite"
    /\ Head(txq).phase = "active"
    /\ adds' = [adds EXCEPT ![Head(txq).call].state = "rejected"]
    /\ txq' = Tail(txq)
    /\ UNCHANGED <<variant, db, opens, backend, store, reps, clock, cv, charts, uiVars>>

\* the transaction commits: the record is in the store, under the next generated key
TxCommit ==
    /\ txq # <<>>
    /\ Head(txq).mode = "readwrite"
    /\ Head(txq).phase = "committing"
    /\ store' = [store EXCEPT ![Head(txq).conn] =
                    Append(@, Stored(adds[Head(txq).call].item, Len(@) + 1))]
    /\ txq' = Tail(txq)
    /\ UNCHANGED <<variant, db, opens, backend, adds, reps, clock, cv, charts, uiVars>>

\* the transaction fails to commit (quota, backend failure): nothing listens to tx.onabort
TxAbort ==
    /\ txq # <<>>
    /\ Head(txq).mode = "readwrite"
    /\ Head(txq).phase = "committing"
    /\ txq' = Tail(txq)
    /\ UNCHANGED <<variant, db, opens, backend, store, adds, reps, clock, cv, charts, uiVars>>

-----------------------------------------------------------------------------
(* getReport *)

\* mutant of MonthItems: the index compared on the month alone
MonthItemsAnyYear(conn, year, month) == SelectSeq(store[conn], LAMBDA c : c.month = month)

\* index.getAll(IDBKeyRange.only([year, month])) on index "yearMonth", in key order
MonthItems(conn, year, month) ==
    SelectSeq(store[conn], LAMBDA c : c.year = year /\ c.month = month)

\* total = 0; rows.forEach(c => total += convertAmount(c.sum, c.currency, currency, rates))
RECURSIVE SumConverted(_, _, _)
SumConverted(rows, currency, rates) ==
    IF rows = <<>> THEN Int2Num(0)
    ELSE LET n == Len(rows)
         IN  Add(SumConverted(SubSeq(rows, 1, n - 1), currency, rates),
                 convertAmount(rows[n].sum, rows[n].currency, currency, rates))

\* mutant of ReportTotal: "var total;" without the initial 0
ReportTotalUnseeded(rows, currency, rates) ==
    Div(MathRound(Mul(Add(Undefined, SumConverted(rows, currency, rates)), Int2Num(100))),
        Int2Num(100))

\* mutant of ReportTotal: the total computed with a table at hand, not the fetched one
ReportTotalStaleRates(rows, currency, rates) ==
    Div(MathRound(Mul(SumConverted(rows, currency, ReferenceRates), Int2Num(100))), Int2Num(100))

\* Math.round(total * 100) / 100
ReportTotal(rows, currency, rates) ==
    Div(MathRound(Mul(SumConverted(rows, currency, rates), Int2Num(100))), Int2Num(100))

\* mutant of ReportCosts: the items are listed converted, in the target currency
ReportCostsConverted(rows, currency, rates) ==
    [i \in 1..Len(rows) |->
        [sum |-> convertAmount(rows[i].sum, rows[i].currency, currency, rates),
         currency |-> currency, category |-> rows[i].category,
         description |-> rows[i].description, Date |-> [day |-> rows[i].day]]]

\* costs: req.result.map(...) in the vanilla wrapper, req.result itself in the React one
ReportCosts(rows, currency, rates) ==
    IF variant = "vanilla"
    THEN [i \in 1..Len(rows) |->
            [sum |-> rows[i].sum, currency |-> rows[i].currency,
             category |-> rows[i].category, description |-> rows[i].description,
             Date |-> [day |-> rows[i].day]]]
    ELSE rows

\* mutant of Report: the total taken over the items the store holds when the rates arrive
ReportOfLateItems(year, month, currency, rows, rates) ==
    [year |-> year, month |-> month,
     costs |-> ReportCosts(rows, currency, rates),
     total |-> [currency |-> currency,
                total |-> ReportTotal(MonthItems(DB_NAME, year, month), currency, rates)]]

\* the value getReport resolves with
Report(year, month, currency, rows, rates) ==
    [year |-> year, month |-> month,
     costs |-> ReportCosts(rows, currency, rates),
     total |-> [currency |-> currency, total |-> ReportTotal(rows, currency, rates)]]

-----------------------------------------------------------------------------
(* The rate-source URL *)

\* A text is a sequence of pieces: " " is a whitespace character, every other
\* piece is a run of characters that are not whitespace.
Space == " "

\* the text without its leading whitespace
RECURSIVE TrimStart(_)
TrimStart(text) ==
    IF text # <<>> /\ Head(text) = Space THEN TrimStart(Tail(text)) ELSE text

\* the text without its trailing whitespace
RECURSIVE TrimEnd(_)
TrimEnd(text) ==
    IF text # <<>> /\ text[Len(text)] = Space
    THEN TrimEnd(SubSeq(text, 1, Len(text) - 1))
    ELSE text

\* String.prototype.trim
Trim(text) == TrimEnd(TrimStart(text))

\* the characters 0..9
Digits == {"0", "1", "2", "3", "4", "5", "6", "7", "8", "9"}

DigitValue(c) ==
    CASE c = "0" -> 0 [] c = "1" -> 1 [] c = "2" -> 2 [] c = "3" -> 3 [] c = "4" -> 4
      [] c = "5" -> 5 [] c = "6" -> 6 [] c = "7" -> 7 [] c = "8" -> 8 [] c = "9" -> 9

AllDigits(text) == \A i \in 1..Len(text) : text[i] \in Digits

\* the number a sequence of digits denotes
RECURSIVE Decimal(_)
Decimal(text) ==
    IF text = <<>> THEN 0
    ELSE 10 * Decimal(SubSeq(text, 1, Len(text) - 1)) + DigitValue(text[Len(text)])

RECURSIVE Pow10(_)
Pow10(n) == IF n = 0 THEN 1 ELSE 10 * Pow10(n - 1)

\* the position of the first c in text, or Len(text) + 1
IndexOf(text, c) ==
    IF \E i \in 1..Len(text) : text[i] = c
    THEN CHOOSE i \in 1..Len(text) : text[i] = c /\ \A j \in 1..(i - 1) : text[j] # c
    ELSE Len(text) + 1

\* decimal exponents above this overflow to Infinity
MaxExponent == 308

\* Number(text), the string-to-number conversion: surrounding whitespace is
\* dropped; "" is 0; [+-]Infinity; a decimal literal [+-]digits[.digits][e[+-]digits]
\* is its value (Infinity when it overflows); everything else is NaN
Number(text) ==
    LET t        == Trim(text)
        signed   == t # <<>> /\ t[1] \in {"-", "+"}
        sign     == IF t # <<>> /\ t[1] = "-" THEN 0 - 1 ELSE 1
        body     == IF signed THEN Tail(t) ELSE t
        e        == IndexOf(body, "e")
        mantissa == SubSeq(body, 1, e - 1)
        expo     == SubSeq(body, e + 1, Len(body))
        expSign  == IF expo # <<>> /\ expo[1] = "-" THEN 0 - 1 ELSE 1
        expBody  == IF expo # <<>> /\ expo[1] \in {"-", "+"} THEN Tail(expo) ELSE expo
        dot      == IndexOf(mantissa, ".")
        whole    == SubSeq(mantissa, 1, dot - 1)
        frac     == SubSeq(mantissa, dot + 1, Len(mantissa))
        digits   == Decimal(whole \o frac)
        scale    == expSign * Decimal(expBody) - Len(frac)
        literal  == /\ AllDigits(whole) /\ AllDigits(frac) /\ Len(whole) + Len(frac) > 0
                    /\ e <= Len(body) => (expBody # <<>> /\ AllDigits(expBody))
    IN  IF t = <<>> THEN Int2Num(0)
        ELSE IF body = <<"Infinity">> THEN Inf(sign)
        ELSE IF ~literal THEN NaN
        ELSE IF digits = 0 THEN Int2Num(0)
        ELSE IF scale + Len(whole \o frac) > MaxExponent THEN Inf(sign)
        ELSE IF scale >= 0 THEN Int2Num(sign * digits * Pow10(scale))
        ELSE Rat(sign * digits, Pow10(0 - scale))

RATES_KEY == "cm_rates_url"

\* DEFAULT_RATES_URL of the wrapper that is loaded
DEFAULT_RATES_URL ==
    IF variant = "vanilla" THEN <<"/rates">> ELSE <<"http://localhost:3000/rates">>

\* DEFAULT_RATES_URL of Charts.jsx
CHARTS_RATES_URL == <<"http://localhost:3000/rates">>

\* localStorage.getItem(key) ?? fallback: only a missing key falls back
GetItemOrIfMissing(key, fallback) ==
    IF key \in DOMAIN localStorage THEN localStorage[key] ELSE fallback

\* localStorage.getItem(key) || fallback: null (no such key) and "" are falsy
GetItemOr(key, fallback) ==
    IF key \in DOMAIN localStorage /\ localStorage[key] # <<>>
    THEN localStorage[key]
    ELSE fallback

\* getRatesUrl() of the wrapper
getRatesUrl == GetItemOr(RATES_KEY, DEFAULT_RATES_URL)

\* getRatesUrl() of Charts.jsx
ChartsRatesUrl == GetItemOr(RATES_KEY, CHARTS_RATES_URL)

-----------------------------------------------------------------------------
\* getReport(year, month, currency) called on the handle openCostsDB call h resolved
\* with: a readonly transaction is created on DB_STATE.db, index.getAll requested
GetReportRequest(h, year, month, currency) ==
    /\ opens[h].state = "resolved"
    /\ reps' = Append(reps, [handle |-> h, conn |-> db,
                             year |-> year, month |-> month, currency |-> currency,
                             state |-> "pending", phase |-> "reading", fetch |-> "none",
                             fetches |-> 0, url |-> <<>>,
                             rows |-> <<>>, rates |-> NoValue, value |-> NoValue, error |-> ""])
    /\ txq' = Append(txq, [mode |-> "readonly", call |-> Len(reps) + 1, phase |-> "active",
                           conn |-> db])

\* getReport called by code that keeps no state of its own across the call
GetReportOn(h, year, month, currency) ==
    /\ GetReportRequest(h, year, month, currency)
    /\ UNCHANGED <<variant, db, opens, backend, store, adds, clock, cv, charts, uiVars>>

\* the application's call, on the handle it holds
GetReportCall(year, month, currency) ==
    /\ Len(reps) < MaxReports
    /\ \E h \in 1..Len(opens) : GetReportOn(h, year, month, currency)

\* req.onsuccess: req.result holds the month's records and fetchRates() is called,
\* which sends its request to getRatesUrl()
ReadSuccess ==
    /\ txq # <<>>
    /\ Head(txq).mode = "readonly"
    /\ LET r == Head(txq).call
       IN  reps' = [reps EXCEPT ![r].phase = "fetching", ![r].fetch = "inflight",
                                ![r].fetches = @ + 1, ![r].url = getRatesUrl,
                                ![r].rows = MonthItems(Head(txq).conn, reps[r].year,
                                                       reps[r].month)]
    /\ txq' = Tail(txq)
    /\ UNCHANGED <<variant, db, opens, backend, store, adds, clock, cv, charts, uiVars>>

\* req.onerror: reject(req.error)
ReadError ==
    /\ txq # <<>>
    /\ Head(txq).mode = "readonly"
    /\ reps' = [reps EXCEPT ![Head(txq).call].phase = "done",
                            ![Head(txq).call].state = "rejected",
                            ![Head(txq).call].error = "ReadError"]
    /\ txq' = Tail(txq)
    /\ UNCHANGED <<variant, db, opens, backend, store, adds, clock, cv, charts, uiVars>>

\* fetchRates() resolves with rates, the table the rate source serves at that time:
\* the report is resolved
FetchOk(r, rates) ==
    /\ reps[r].phase = "fetching"
    /\ reps' = [reps EXCEPT ![r].phase = "done", ![r].fetch = "ok", ![r].state = "resolved",
                            ![r].rates = rates,
                            ![r].value = Report(reps[r].year, reps[r].month, reps[r].currency,
                                                reps[r].rows, rates)]
    /\ UNCHANGED <<variant, db, opens, backend, store, txq, adds, clock, cv, charts, uiVars>>

\* fetchRates() rejects (network error, or !res.ok).  Vanilla: .catch(reject).
\* React: the async onsuccess handler throws, and nothing settles the promise.
FetchFail(r) ==
    /\ reps[r].phase = "fetching"
    /\ reps' = [reps EXCEPT ![r].phase = "done", ![r].fetch = "failed",
                            ![r].state = IF variant = "vanilla" THEN "rejected" ELSE "pending",
                            ![r].error = IF variant = "vanilla"
                                         THEN "Failed to fetch exchange rates" ELSE ""]
    /\ UNCHANGED <<variant, db, opens, backend, store, txq, adds, clock, cv, charts, uiVars>>

-----------------------------------------------------------------------------
(* Environment *)

\* time passes
Tick ==
    /\ clock < Len(Dates)
    /\ clock' = clock + 1
    /\ UNCHANGED <<variant, db, opens, backend, store, txq, adds, reps, cv, charts, uiVars>>

-----------------------------------------------------------------------------
(* The program *)

\* Charts is not rendered: the state its useState calls start from
\* no key has been set
NoStorage == [key \in {} |-> <<>>]

\* useState(""): the dialog is closed and its text field is empty
NoDialog == [open |-> FALSE, url |-> <<>>]

\* App is not rendered: the state its useState calls start from.  dbApi is the
\* openCostsDB call whose handle App holds (0: null), openCall the call its
\* effect awaits, refreshes the refreshReport calls that reached getReport
NoApp ==
    [mounted |-> FALSE, tab |-> 0, dbApi |-> 0, openCall |-> 0,
     year |-> 0, month |-> 0, currency |-> "USD",
     report |-> NoValue, loadingReport |-> FALSE, reportError |-> "", refreshes |-> <<>>]

\* AddCostForm is not rendered: the state its useState calls start from.
\* submits are the submit calls that reached addCost
NoForm ==
    [mounted |-> FALSE, sum |-> <<>>, currency |-> "USD", category |-> "Food",
     description |-> <<>>, status |-> [type |-> "", msg |-> ""], submits |-> <<>>]

NoCharts ==
    [mounted |-> FALSE, year |-> 0, month |-> 0, currency |-> "",
     fetch |-> "none", url |-> <<>>, rates |-> NoValue, ratesOk |-> FALSE,
     loading |-> FALSE, error |-> "", monthReport |-> NoValue, yearTotals |-> <<>>,
     pc |-> "idle", await |-> 0, m |-> 0, totals |-> <<>>]

NoConversion ==
    [amount |-> Int2Num(0), from |-> "USD", to |-> "USD", rates |-> ReferenceRates,
     pc |-> "idle", out |-> Undefined, back |-> Undefined]

InitApp ==
    /\ variant \in {"vanilla", "react"}
    /\ db = NoDb
    /\ opens = <<>>
    /\ backend = [name \in DbNames |-> [version |-> 0, stores |-> {}]]
    /\ store = [name \in DbNames |-> <<>>]
    /\ txq = <<>>
    /\ adds = <<>>
    /\ reps = <<>>
    /\ clock = 1
    /\ charts = NoCharts
    /\ localStorage = NoStorage
    /\ dialog = NoDialog
    /\ app = NoApp
    /\ form = NoForm

Init == InitApp /\ cv = NoConversion

Next ==
    \/ OpenCall
    \/ \E i \in 1..Len(opens) : OpenUpgradeNeeded(i) \/ OpenSuccess(i) \/ OpenError(i)
    \/ \E cost \in CostInputs : AddCostCall(cost)
    \/ AddReqSuccess
    \/ AddReqError
    \/ TxCommit
    \/ TxAbort
    \/ \E ym \in ReportMonths, c \in ReportCurrencies : GetReportCall(ym[1], ym[2], c)
    \/ ReadSuccess
    \/ ReadError
    \/ \E r \in 1..Len(reps) : (\E rates \in SourceTables : FetchOk(r, rates)) \/ FetchFail(r)
    \/ Tick

Spec == Init /\ [][Next]_vars

-----------------------------------------------------------------------------
(* convertAmount on its own: a call, and the call that converts the result back *)

InitConv ==
    /\ InitApp
    /\ cv \in [amount : ConvAmounts, from : ConvCodes, to : ConvCodes, rates : RateTables,
                pc : {"start"}, out : {Undefined}, back : {Undefined}]

\* out = convertAmount(amount, from, to, rates)
Convert ==
    /\ cv.pc = "start"
    /\ cv' = [cv EXCEPT !.pc = "converted",
                        !.out = convertAmount(cv.amount, cv.from, cv.to, cv.rates)]
    /\ UNCHANGED appVars

\* back = convertAmount(out, to, from, rates)
ConvertBack ==
    /\ cv.pc = "converted"
    /\ cv' = [cv EXCEPT !.pc = "back",
                        !.back = convertAmount(cv.out, cv.to, cv.from, cv.rates)]
    /\ UNCHANGED appVars

NextConv == Convert \/ ConvertBack

SpecConv == InitConv /\ [][NextConv]_vars

-----------------------------------------------------------------------------
(* Properties of convertAmount, checked under SpecConv *)

Converted == cv.pc \in {"converted", "back"}

\* the call returned a JavaScript number: finite, infinite or NaN
ReturnedNumber == cv.out.k \in {"num", "inf", "nan"}

\* amount / rates[from] * rates[to] as one exact fraction, for a well-formed table
Exact(amount, from, to, rates) ==
    Rat(amount.n * rates[from].d * rates[to].n, amount.d * rates[from].n * rates[to].d)

\* x rounded to 2 decimals, a half rounded away from zero
RoundHalfAway2(x) ==
    Rat(Sgn(x.n) * ((2 * 100 * Abs(x.n) + x.d) \div (2 * x.d)), 100)

\* x is a whole number of cents
IsCents(x) == IsFinite(x) /\ 100 % x.d = 0

\* |a - b|, for finite numbers
Dist(a, b) == Rat(Abs(a.n * b.d - b.n * a.d), a.d * b.d)

SupportedCall ==
    /\ Converted
    /\ WellFormed(cv.rates)
    /\ cv.from \in CURRENCIES
    /\ cv.to \in CURRENCIES

\* C4 (as claimed): whenever from or to is not a key of rates, convert fails with
\* UnknownCurrencyError and returns no number at all (zero, NaN or otherwise).
C4_UnknownCurrencyFails ==
    (Converted /\ (cv.from \notin DOMAIN cv.rates \/ cv.to \notin DOMAIN cv.rates))
        => ~ReturnedNumber

\* C5 (as claimed): whenever rates[from] is 0, convert fails with InvalidRateError
\* and returns no number, in particular no infinite or undefined one.
C5_ZeroRateFails ==
    (Converted /\ cv.from \in DOMAIN cv.rates /\ cv.rates[cv.from] = Int2Num(0))
        => ~ReturnedNumber

RoundTripCall ==
    /\ cv.pc = "back"
    /\ cv.rates = ReferenceRates
    /\ cv.from \in CURRENCIES
    /\ cv.to \in CURRENCIES
    /\ IsCents(cv.amount)

\* C7 (as claimed): for every whole number of cents a and every pair of supported
\* currencies X, Y under the reference table, convert(convert(a, X, Y), Y, X)
\* differs from a by at most 0.01.
C7_RoundTripWithinOneCent ==
    RoundTripCall => Leq(Dist(cv.back, cv.amount), Rat(1, 100))

\* C7 (amended): under the reference table convert(convert(a, X, Y), Y, X) differs
\* from a by at most 0.005 * rates[X] / rates[Y] + 0.005, which is at most 0.01
\* whenever rates[X] <= rates[Y]; convert(100, USD, ILS) = 340.00 and
\* convert(340, ILS, USD) = 100.00.
C7_RoundTripBound ==
    RoundTripCall =>
        LET rx == cv.rates[cv.from]
            ry == cv.rates[cv.to]
            d  == Dist(cv.back, cv.amount)
        IN  /\ Leq(d, Add(Mul(Rat(1, 200), Div(rx, ry)), Rat(1, 200)))
            /\ (Leq(rx, ry) => Leq(d, Rat(1, 100)))
            /\ (cv.amount = Int2Num(100) /\ cv.from = "USD" /\ cv.to = "ILS"
                    => cv.out = Int2Num(340) /\ cv.back = Int2Num(100))

\* C7 witness: 100 USD to ILS and back
C7_Witness ==
    /\ RoundTripCall
    /\ cv.amount = Int2Num(100)
    /\ cv.from = "USD"
    /\ cv.to = "ILS"
    /\ cv.out = Int2Num(340)
    /\ cv.back = Int2Num(100)

-----------------------------------------------------------------------------
(* Properties of addCost and getReport, checked under Spec *)

Resolved(r) == reps[r].state = "resolved"

\* the step in which the index read of getReport call r delivers its result
ReadStep(r) == reps[r].phase = "reading" /\ reps'[r].phase = "fetching"

\* the sum of the converted amounts of rows, none of them rounded
RECURSIVE UnroundedSum(_, _, _)
UnroundedSum(rows, currency, rates) ==
    IF rows = <<>> THEN Int2Num(0)
    ELSE LET n == Len(rows)
         IN  Add(UnroundedSum(SubSeq(rows, 1, n - 1), currency, rates),
                 Mul(Div(rows[n].sum, Lookup(rates, rows[n].currency)),
                     Lookup(rates, currency)))

\* C1 (as claimed): the total of a monthly report is the sum of the unrounded
\* converted amounts of the month's items, rounded to 2 decimals once at the end.
C1_TotalRoundedOnce ==
    \A r \in 1..Len(reps) :
        Resolved(r) =>
            reps[r].value.total.total =
                Div(MathRound(Mul(UnroundedSum(reps[r].rows, reps[r].currency, reps[r].rates),
                                  Int2Num(100))),
                    Int2Num(100))

\* C2 (as claimed): whenever the rate fetch inside getReport fails, the promise
\* getReport returned is rejected; it is neither resolved nor left pending.
C2_FetchFailureRejects ==
    \A r \in 1..Len(reps) : reps[r].fetch = "failed" => reps[r].state = "rejected"

SameFields(a, b) ==
    /\ a.sum = b.sum
    /\ a.currency = b.currency
    /\ a.category = b.category
    /\ a.description = b.description

\* C3 (as claimed): once addCost has succeeded, the index read of a getReport for
\* the (year, month) of the insertion date delivers the item, and the costs list
\* built from it holds an entry with the sum, currency, category and description
\* that were passed in.
C3_RoundTrip ==
    [][\A r \in 1..Len(reps) :
          ReadStep(r) =>
              LET costs == ReportCosts(reps'[r].rows, reps[r].currency, ReferenceRates)
              IN  \A i \in 1..Len(adds) :
                      (/\ adds[i].state = "resolved"
                       /\ adds[i].item.year = reps[r].year
                       /\ adds[i].item.month = reps[r].month)
                          => \E j \in 1..Len(costs) : SameFields(costs[j], adds[i].item)]_vars

\* C8: a resolved report for a (year, month) with no stored items has costs = []
\* and total = {currency: the requested currency, total: 0}; a report for such a
\* month is rejected only when the backend read or the rate fetch failed.
C8_EmptyMonth ==
    \A r \in 1..Len(reps) :
        MonthItems(reps[r].conn, reps[r].year, reps[r].month) = <<>> =>
            /\ Resolved(r) =>
                  /\ reps[r].value.costs = <<>>
                  /\ reps[r].value.total = [currency |-> reps[r].currency, total |-> Int2Num(0)]
                  /\ reps[r].value.year = reps[r].year
                  /\ reps[r].value.month = reps[r].month
            /\ reps[r].state = "rejected" =>
                  reps[r].error = "ReadError" \/ reps[r].fetch = "failed"

\* C8 witness: a resolved report of an empty month while other months hold items
C8_Witness ==
    \E r \in 1..Len(reps) :
        /\ Resolved(r)
        /\ store[reps[r].conn] # <<>>
        /\ MonthItems(reps[r].conn, reps[r].year, reps[r].month) = <<>>
        /\ reps[r].value.costs = <<>>
        /\ reps[r].value.total.total = Int2Num(0)

\* C9: in every resolved report, whatever the target currency, costs has one
\* entry per record the month's read delivered, in order, each with the sum and
\* the currency exactly as stored; those records are records of the store for
\* that (year, month).  Only total is converted.
C9_CostsUnconverted ==
    \A r \in 1..Len(reps) :
        Resolved(r) =>
            LET costs  == reps[r].value.costs
                stored == MonthItems(reps[r].conn, reps[r].year, reps[r].month)
            IN  /\ Len(costs) = Len(reps[r].rows)
                /\ Len(costs) <= Len(stored)
                /\ \A j \in 1..Len(costs) :
                      /\ costs[j].sum = stored[j].sum
                      /\ costs[j].currency = stored[j].currency
                      /\ reps[r].rows[j] = stored[j]

\* C9 witness: a report in USD lists a GBP item as 50 GBP while its total is 83.33
C9_Witness ==
    \E r \in 1..Len(reps) :
        /\ Resolved(r)
        /\ Len(reps[r].value.costs) = 1
        /\ reps[r].value.costs[1].currency = "GBP"
        /\ reps[r].value.costs[1].sum = Int2Num(50)
        /\ reps[r].value.total = [currency |-> "USD", total |-> Rat(8333, 100)]

\* C10: the month's read delivers exactly the stored records whose (year, month)
\* is the requested pair: every such record once, and no record of another month
\* or of another year.
C10_ExactMonth ==
    [][\A r \in 1..Len(reps) :
          ReadStep(r) =>
              LET rows == reps'[r].rows
                  kept == store[reps[r].conn]
                  hit(c) == c.year = reps[r].year /\ c.month = reps[r].month
              IN  /\ \A k \in 1..Len(kept) :
                        hit(kept[k]) <=> \E j \in 1..Len(rows) : rows[j] = kept[k]
                  /\ \A j \in 1..Len(rows) : \E k \in 1..Len(kept) : rows[j] = kept[k]
                  /\ Len(rows) = Cardinality({k \in 1..Len(kept) : hit(kept[k])})]_vars

\* C10 witness: a read has delivered a record while the store also holds a record
\* of the same month of another year
C10_Witness ==
    \E r \in 1..Len(reps) :
        /\ reps[r].phase = "fetching"
        /\ Len(reps[r].rows) = 1
        /\ \E k \in 1..Len(store[reps[r].conn]) :
              /\ store[reps[r].conn][k].month = reps[r].month
              /\ store[reps[r].conn][k].year # reps[r].year

-----------------------------------------------------------------------------
(* Properties of addCost's result and of the store's history, checked under Spec *)

\* the transaction of addCost call i has neither committed nor aborted yet
AddTxOpen(i) == \E k \in 1..Len(txq) : txq[k].mode = "readwrite" /\ txq[k].call = i

\* C12 (as claimed): a successful addCost resolves with the stored record in
\* full: the id the store assigned, the year, month and day of the insertion
\* date, and the sum, currency, category and description that were passed in.
C12_ReturnsStoredRecord ==
    \A i \in 1..Len(adds) :
        adds[i].state = "resolved" =>
            \E id \in 1..MaxCosts : adds[i].value = Stored(adds[i].item, id)

\* C13 (as claimed): addCost reports success only for a committed record: once
\* addCost has resolved and its transaction is over, the record is in the store.
C13_SuccessMeansCommitted ==
    \A i \in 1..Len(adds) :
        (adds[i].state = "resolved" /\ ~AddTxOpen(i)) =>
            \E name \in DbNames : \E k \in 1..Len(store[name]) :
                store[name][k] = Stored(adds[i].item, store[name][k].id)

\* the number of stored records, over all databases
StoredCount == Len(store[DB_NAME]) + Len(store[OTHER_NAME])

\* C15 (as claimed): no step removes a stored record or changes one of its
\* fields, getReport and open add none, and every successful addCost has added
\* exactly one record by the time its transaction is over.
C15_AppendOnly ==
    [][/\ \A name \in DbNames :
            /\ Len(store'[name]) >= Len(store[name])
            /\ \A k \in 1..Len(store[name]) : store'[name][k] = store[name][k]
       /\ (reps' # reps \/ opens' # opens) => store' = store
       /\ StoredCount' =
            Cardinality({i \in 1..Len(adds') :
                            adds'[i].state = "resolved"
                            /\ ~\E k \in 1..Len(txq') :
                                   txq'[k].mode = "readwrite" /\ txq'[k].call = i})]_vars

\* the part of C15 that is about stored records alone
C15_StoredRecordsKept ==
    [][/\ \A name \in DbNames :
            /\ Len(store'[name]) >= Len(store[name])
            /\ \A k \in 1..Len(store[name]) : store'[name][k] = store[name][k]
       /\ (reps' # reps \/ opens' # opens) => store' = store]_vars

-----------------------------------------------------------------------------
(* The wrapper used as a library: several openCostsDB calls, on two database names *)

MaxHandles == 2

MaxHandleCalls == 1

\* the arguments of the calls made on the handles
HandleCosts ==
    { [sum |-> Int2Num(100), currency |-> "USD", category |-> "Food", description |-> "lunch"] }

HandleMonths == { <<2024, 12>> }

OpenAny(name) ==
    /\ Len(opens) < MaxHandles
    /\ OpenDB(name)

AddCostAny(h, cost) ==
    /\ Len(adds) + Len(reps) < MaxHandleCalls
    /\ AddCostOn(h, cost)

GetReportAny(h, year, month, currency) ==
    /\ Len(adds) + Len(reps) < MaxHandleCalls
    /\ GetReportOn(h, year, month, currency)

NextHandles ==
    \/ \E name \in DbNames : OpenAny(name)
    \/ \E i \in 1..Len(opens) : OpenUpgradeNeeded(i) \/ OpenSuccess(i) \/ OpenError(i)
    \/ \E h \in 1..Len(opens), cost \in HandleCosts : AddCostAny(h, cost)
    \/ AddReqSuccess
    \/ AddReqError
    \/ TxCommit
    \/ TxAbort
    \/ \E h \in 1..Len(opens), ym \in HandleMonths : GetReportAny(h, ym[1], ym[2], "USD")
    \/ ReadSuccess
    \/ ReadError
    \/ \E r \in 1..Len(reps) : FetchOk(r, ReferenceRates) \/ FetchFail(r)

SpecHandles == Init /\ [][NextHandles]_vars

\* the database openCostsDB call h was made for
HandleDb(h) == opens[h].name

\* openCostsDB call i is for a database an earlier call has opened successfully
Reopen(i) ==
    \E j \in 1..(i - 1) : opens[j].name = opens[i].name /\ opens[j].state = "resolved"

\* C14: opening a database that was opened before runs no schema change and
\* leaves the stored items as they are; no step of any open touches the items;
\* and once an open has succeeded, its database has exactly one collection,
\* "costs", with exactly one index, on (year, month).
C14_IdempotentOpen ==
    [][/\ \A i \in 1..Len(opens) :
            (opens'[i] # opens[i] /\ Reopen(i)) => (backend' = backend /\ store' = store)
       /\ opens' # opens => store' = store
       /\ \A i \in 1..Len(opens') :
            opens'[i].state = "resolved" =>
                /\ { s.name : s \in backend'[opens'[i].name].stores } = {"costs"}
                /\ Cardinality(backend'[opens'[i].name].stores) = 1
                /\ \A s \in backend'[opens'[i].name].stores :
                      /\ Cardinality(s.indexes) = 1
                      /\ \A x \in s.indexes : x.keyPath = <<"year", "month">>]_vars

\* C14 witness: a database holding an item has been opened a second time, and
\* the second open needed no upgrade
C14_Witness ==
    /\ Len(opens) = 2
    /\ opens[1].state = "resolved"
    /\ opens[2].state = "resolved"
    /\ opens[1].name = opens[2].name
    /\ ~opens[2].upgraded
    /\ store[opens[1].name] # <<>>

\* C16 (as claimed): an operation goes to the database of the handle it is
\* called on, whatever was opened since: the record of an addCost is appended
\* to that database's store, and the read of a getReport runs on that
\* database's connection and delivers the items of that store.
C16_HandleKeepsStore ==
    [][/\ \A i \in 1..Len(adds) :
            (AddTxOpen(i) /\ ~AddTxOpen(i)' /\ store' # store) =>
                Len(store'[HandleDb(adds[i].handle)]) = Len(store[HandleDb(adds[i].handle)]) + 1
       /\ \A r \in 1..Len(reps) :
            ReadStep(r) =>
                /\ reps[r].conn = HandleDb(reps[r].handle)
                /\ reps'[r].rows = MonthItems(HandleDb(reps[r].handle), reps[r].year,
                                              reps[r].month)]_vars

-----------------------------------------------------------------------------
(* Report builds running side by side, and alongside addCost, on one handle *)

MaxBuilds == 2

MaxBuildCosts == 2

\* addCost while fewer than MaxBuildCosts items were added
BuildAdd(cost) ==
    /\ Len(adds) < MaxBuildCosts
    /\ \E h \in 1..Len(opens) : AddCostOn(h, cost)

\* getReport(year, month, currency) while fewer than MaxBuilds builds were started
BuildReport(year, month, currency) ==
    /\ Len(reps) < MaxBuilds
    /\ \E h \in 1..Len(opens) : GetReportOn(h, year, month, currency)

NextBuilds ==
    \/ AppOpen
    \/ \E i \in 1..Len(opens) : OpenUpgradeNeeded(i) \/ OpenSuccess(i) \/ OpenError(i)
    \/ \E cost \in HandleCosts : BuildAdd(cost)
    \/ AddReqSuccess
    \/ AddReqError
    \/ TxCommit
    \/ TxAbort
    \/ \E ym \in HandleMonths : BuildReport(ym[1], ym[2], "ILS")
    \/ ReadSuccess
    \/ ReadError
    \/ \E r \in 1..Len(reps) : (\E rates \in SourceTables : FetchOk(r, rates)) \/ FetchFail(r)

SpecBuilds == Init /\ [][NextBuilds]_vars

\* the total the wrapper's aggregation gives for a list of items under a table
Aggregate(items, currency, rates) ==
    Div(MathRound(Mul(SumConverted(items, currency, rates), Int2Num(100))), Int2Num(100))

\* C18 (as claimed): every report build that has ended has performed exactly one
\* rate fetch, and the total of a resolved report is computed with the table
\* that fetch returned.
C18_ExactlyOneFetch ==
    \A r \in 1..Len(reps) :
        /\ reps[r].phase = "done" => reps[r].fetches = 1
        /\ Resolved(r) =>
              reps[r].value.total.total = Aggregate(reps[r].rows, reps[r].currency, reps[r].rates)

\* C18 (amended): a report build performs no rate fetch before its item read
\* has succeeded and exactly one from then on, with no retry after a failure; a
\* build whose read fails performs none.  The total of a resolved report is
\* computed with the table its own fetch returned, never with the table of an
\* earlier build.
C18_OneFetchAfterRead ==
    \A r \in 1..Len(reps) :
        /\ reps[r].fetches = IF reps[r].phase = "reading" \/ reps[r].error = "ReadError"
                             THEN 0 ELSE 1
        /\ reps[r].fetch = "none" <=> reps[r].fetches = 0
        /\ Resolved(r) =>
              /\ reps[r].fetch = "ok"
              /\ reps[r].value.total.total =
                    Aggregate(reps[r].rows, reps[r].currency, reps[r].rates)

\* C18 witness: two resolved reports over the same unchanged item, built under
\* different tables, each with the total of its own table (340 and 300 ILS)
C18_Witness ==
    /\ Len(reps) = 2
    /\ Resolved(1)
    /\ Resolved(2)
    /\ reps[1].rows = reps[2].rows
    /\ Len(reps[1].rows) = 1
    /\ reps[1].rates = ReferenceRates
    /\ reps[2].rates = OtherRates
    /\ reps[1].value.total.total = Int2Num(340)
    /\ reps[2].value.total.total = Int2Num(300)

\* C20: the total of every resolved report is the aggregate of exactly the
\* items listed in that report's costs, which are the items its own read
\* delivered, whatever was inserted and whatever other build ran meanwhile.
C20_ConsistentReport ==
    \A r \in 1..Len(reps) :
        Resolved(r) =>
            /\ Len(reps[r].value.costs) = Len(reps[r].rows)
            /\ \A j \in 1..Len(reps[r].rows) : SameFields(reps[r].value.costs[j], reps[r].rows[j])
            /\ reps[r].value.total.currency = reps[r].currency
            /\ reps[r].value.total.total =
                  Aggregate(reps[r].value.costs, reps[r].currency, reps[r].rates)

\* C20 witness: the second build has resolved while the first is still waiting
\* for its rates; an item was inserted between the two reads, and another one
\* between the second read and the arrival of its rates
C20_Witness ==
    /\ Len(reps) = 2
    /\ reps[1].phase = "fetching"
    /\ Resolved(2)
    /\ Len(reps[1].rows) = 0
    /\ Len(reps[2].value.costs) = 1
    /\ Len(MonthItems(reps[2].conn, reps[2].year, reps[2].month)) = 2
    /\ reps[2].value.total.total = Int2Num(340)

-----------------------------------------------------------------------------
(* The Charts component *)

\* mutant of monthsList: the months counted from 0
monthsListFromZero == [i \in 1..12 |-> i - 1]

\* monthsList(): Array.from({length: 12}, (_, i) => i + 1)
monthsList == [i \in 1..12 |-> i]

MaxChartCosts == 1

\* the years Charts is shown for; the month and the currency are kept fixed
ChartYears == {2024, 2025}

\* the body of a JSON error response
ErrorBody == [message |-> "Service Unavailable"]

\* responses to Charts' own fetch(getRatesUrl()): a 200 with the table, a
\* non-2xx with a JSON body, a non-2xx with a body that is not JSON
ChartsResponses ==
    { [ok |-> TRUE,  json |-> TRUE,  body |-> ReferenceRates],
      [ok |-> FALSE, json |-> TRUE,  body |-> ErrorBody],
      [ok |-> FALSE, json |-> FALSE, body |-> NoValue] }

\* the tables the rate source serves while the charts are built: the source
\* changes from ReferenceRates to OtherRates at most once
ChartTables == {ReferenceRates, OtherRates}

SourceServes(r, rates) ==
    \A q \in 1..(r - 1) : reps[q].rates = OtherRates => rates = OtherRates

\* dbApi: the handle App keeps once openCostsDB has resolved
DbApi == CHOOSE h \in 1..Len(opens) : opens[h].state = "resolved"

\* the Charts tab is selected: the component is rendered and its rates effect runs
ChartsMount(year, month, currency) ==
    /\ ~charts.mounted
    /\ charts' = [NoCharts EXCEPT !.mounted = TRUE, !.year = year, !.month = month,
                                  !.currency = currency, !.fetch = "inflight",
                                  !.url = ChartsRatesUrl]
    /\ UNCHANGED <<variant, db, opens, backend, store, txq, adds, reps, clock, cv, uiVars>>

\* .then(res => res.json()).then(setRates).catch(() => setError(...))
ChartsRatesResponse(res) ==
    /\ charts.fetch = "inflight"
    /\ charts' = IF res.json
                 THEN [charts EXCEPT !.fetch = "done", !.rates = res.body, !.ratesOk = res.ok]
                 ELSE [charts EXCEPT !.fetch = "done",
                                     !.error = "Failed to fetch exchange rates"]
    /\ UNCHANGED <<variant, db, opens, backend, store, txq, adds, reps, clock, cv, uiVars>>

\* fetch rejects (no network): .catch(() => setError(...))
ChartsRatesFailed ==
    /\ charts.fetch = "inflight"
    /\ charts' = [charts EXCEPT !.fetch = "done", !.error = "Failed to fetch exchange rates"]
    /\ UNCHANGED <<variant, db, opens, backend, store, txq, adds, reps, clock, cv, uiVars>>

\* the charts effect passes its guard: setLoading(true), setError(""), and the
\* monthly report is requested
ChartsStart ==
    /\ charts.mounted
    /\ charts.pc = "idle"
    /\ HasHandle
    /\ charts.rates # NoValue
    /\ GetReportRequest(DbApi, charts.year, charts.month, charts.currency)
    /\ charts' = [charts EXCEPT !.pc = "monthly", !.loading = TRUE, !.error = "",
                                !.await = Len(reps) + 1]
    /\ UNCHANGED <<variant, db, opens, backend, store, adds, clock, cv, uiVars>>

\* setMonthReport(monthly); totals = []; the report of month 1 is requested
ChartsMonthlyDone ==
    /\ charts.pc = "monthly"
    /\ reps[charts.await].state = "resolved"
    /\ GetReportRequest(DbApi, charts.year, monthsList[1], charts.currency)
    /\ charts' = [charts EXCEPT !.pc = "yearly", !.monthReport = reps[charts.await].value,
                                !.m = 1, !.totals = <<>>, !.await = Len(reps) + 1]
    /\ UNCHANGED <<variant, db, opens, backend, store, adds, clock, cv, uiVars>>

\* totals.push({month: m, total: rep.total.total}); then the next month is
\* requested, or after the last one setYearTotals(totals) and setLoading(false)
ChartsYearlyStep ==
    /\ charts.pc = "yearly"
    /\ reps[charts.await].state = "resolved"
    /\ LET totals == Append(charts.totals,
                            [month |-> monthsList[charts.m],
                             total |-> reps[charts.await].value.total.total])
       IN  IF charts.m < Len(monthsList)
           THEN /\ GetReportRequest(DbApi, charts.year, monthsList[charts.m + 1],
                                    charts.currency)
                /\ charts' = [charts EXCEPT !.m = @ + 1, !.totals = totals,
                                            !.await = Len(reps) + 1]
           ELSE /\ charts' = [charts EXCEPT !.pc = "done", !.totals = totals,
                                            !.yearTotals = totals, !.loading = FALSE]
                /\ UNCHANGED <<reps, txq>>
    /\ UNCHANGED <<variant, db, opens, backend, store, adds, clock, cv, uiVars>>

\* catch (e): setError(e?.message || "Failed to build charts"); finally: setLoading(false)
ChartsFailed ==
    /\ charts.pc \in {"monthly", "yearly"}
    /\ reps[charts.await].state = "rejected"
    /\ charts' = [charts EXCEPT !.pc = "failed", !.loading = FALSE,
                                !.error = IF reps[charts.await].error # ""
                                          THEN reps[charts.await].error
                                          ELSE "Failed to build charts"]
    /\ UNCHANGED <<variant, db, opens, backend, store, txq, adds, reps, clock, cv, uiVars>>

\* the Add Cost tab is selected, Charts is not rendered: the form calls addCost
FormAddCost(cost) ==
    /\ ~charts.mounted
    /\ Len(adds) < MaxChartCosts
    /\ \E h \in 1..Len(opens) : AddCostOn(h, cost)

\* time passes before the Charts tab is selected
TickBefore ==
    /\ ~charts.mounted
    /\ Tick

NextCharts ==
    \/ AppOpen
    \/ \E i \in 1..Len(opens) : OpenUpgradeNeeded(i) \/ OpenSuccess(i) \/ OpenError(i)
    \/ \E cost \in HandleCosts : FormAddCost(cost)
    \/ AddReqSuccess
    \/ AddReqError
    \/ TxCommit
    \/ TxAbort
    \/ TickBefore
    \/ \E year \in ChartYears : ChartsMount(year, 12, "ILS")
    \/ \E res \in ChartsResponses : ChartsRatesResponse(res)
    \/ ChartsRatesFailed
    \/ ChartsStart
    \/ ChartsMonthlyDone
    \/ ChartsYearlyStep
    \/ ChartsFailed
    \/ ReadSuccess
    \/ ReadError
    \/ \E r \in 1..Len(reps) :
          \/ \E rates \in ChartTables : SourceServes(r, rates) /\ FetchOk(r, rates)
          \/ FetchFail(r)

SpecCharts == Init /\ [][NextCharts]_vars

-----------------------------------------------------------------------------
(* Properties of the Charts component, checked under SpecCharts *)

\* the yearly-totals computation has run to its end
ChartsDone == charts.pc = "done"

\* the getReport call of the charts computation for month i of the year: the
\* first call is the monthly report, the twelve that follow are the months
YearBuild(i) == 1 + i

\* the stored items of the year the charts are for
YearItems == SelectSeq(store[DB_NAME], LAMBDA c : c.year = charts.year)

\* the year has items, and all of them lie in month m
OnlyMonth(m) ==
    /\ YearItems # <<>>
    /\ \A k \in 1..Len(YearItems) : YearItems[k].month = m

\* twelve entries, for months 1..12 in order, with total 0 outside month m
TwelveEntries(m) ==
    /\ Len(charts.yearTotals) = 12
    /\ \A i \in 1..12 :
          /\ charts.yearTotals[i].month = i
          /\ i # m => charts.yearTotals[i].total = Int2Num(0)

C17_SubFailureAborts ==
    /\ \A r \in 1..Len(reps) :
          (reps[r].fetch = "failed" \/ reps[r].error = "ReadError") =>
              (charts.error # "" \/ reps[r].state = "rejected")
    /\ charts.pc # "done" => charts.yearTotals = <<>>
    /\ charts.pc = "done" =>
          /\ Len(charts.yearTotals) = 12
          /\ \A i \in 1..12 : Resolved(YearBuild(i))
          /\ \A i \in 1..12 :
                charts.yearTotals[i].total = reps[YearBuild(i)].value.total.total

\* C19 (as claimed): the table Charts holds never comes from a non-2xx response.
C19_Non2xxNeverUsed ==
    charts.rates # NoValue => charts.ratesOk

-----------------------------------------------------------------------------
(* The pie chart of the Charts view *)

\* a number JavaScript takes for false: 0, NaN, undefined
Falsy(x) == IsNotANumber(x) \/ (IsFinite(x) /\ x.n = 0)

\* c.category || "Other"
PieCategory(c) == IF c.category = "" THEN "Other" ELSE c.category

\* the value the map holds for category after the forEach over costs:
\* map.set(category, (map.get(category) || 0) + converted)
RECURSIVE CategoryValue(_, _, _, _)
CategoryValue(costs, category, currency, rates) ==
    IF costs = <<>> THEN Undefined
    ELSE LET n      == Len(costs)
             before == CategoryValue(SubSeq(costs, 1, n - 1), category, currency, rates)
         IN  IF PieCategory(costs[n]) # category THEN before
             ELSE Add(IF Falsy(before) THEN Int2Num(0) ELSE before,
                      convertAmount(costs[n].sum, costs[n].currency, currency, rates))

\* pieData: one slice per category of the month's costs, its value rounded to 2 decimals
pieData ==
    IF charts.monthReport = NoValue \/ charts.rates = NoValue
    THEN [name \in {} |-> Int2Num(0)]
    ELSE LET costs == charts.monthReport.costs
         IN  [name \in { PieCategory(costs[i]) : i \in 1..Len(costs) } |->
                 Div(MathRound(Mul(CategoryValue(costs, name, charts.currency, charts.rates),
                                   Int2Num(100))),
                     Int2Num(100))]

\* the slice values of a pie added up
RECURSIVE SliceSum(_)
SliceSum(pie) ==
    IF DOMAIN pie = {} THEN Int2Num(0)
    ELSE LET name == CHOOSE x \in DOMAIN pie : TRUE
         IN  Add(pie[name], SliceSum([x \in DOMAIN pie \ {name} |-> pie[x]]))

\* the view shows its charts: {!loading && !error && (...)}
ChartsShown == charts.mounted /\ ~charts.loading /\ charts.error = ""

\* C28 (as claimed): whenever the Charts view shows the pie of a monthly
\* report, the slice values add up to the total of that report. Stated for
\* pies whose rate table came from a 2xx response, so that a violation does
\* not rest on the missing res.ok check of the charts path.
C28_PieAddsUpToTotal ==
    (ChartsShown /\ charts.monthReport # NoValue /\ charts.ratesOk) =>
        SliceSum(pieData) = charts.monthReport.total.total

-----------------------------------------------------------------------------
(* The settings dialog and the rate-source URL *)

MaxSettingsReports == 2

\* the texts typed into the URL field
UrlTexts ==
    { <<>>,
      <<Space>>,
      <<"https://rates.example/usd">>,
      <<Space, "https://rates.example/usd", Space>>,
      <<"/my-rates">> }

\* the dialog is opened: setUrl(localStorage.getItem("cm_rates_url") || "")
SettingsOpen ==
    /\ ~dialog.open
    /\ dialog' = [open |-> TRUE, url |-> GetItemOr(RATES_KEY, <<>>)]
    /\ UNCHANGED <<variant, db, opens, backend, store, txq, adds, reps, clock, cv, charts,
                   localStorage, app, form>>

\* onChange of the text field: setUrl(e.target.value)
SettingsChange(text) ==
    /\ dialog.open
    /\ dialog' = [dialog EXCEPT !.url = text]
    /\ UNCHANGED <<variant, db, opens, backend, store, txq, adds, reps, clock, cv, charts,
                   localStorage, app, form>>

\* Save: localStorage.setItem("cm_rates_url", url.trim()); onClose()
save ==
    /\ dialog.open
    /\ localStorage' = [key \in DOMAIN localStorage \cup {RATES_KEY} |->
                           IF key = RATES_KEY THEN Trim(dialog.url) ELSE localStorage[key]]
    /\ dialog' = [dialog EXCEPT !.open = FALSE]
    /\ UNCHANGED <<variant, db, opens, backend, store, txq, adds, reps, clock, cv, charts,
                   app, form>>

\* Reset: localStorage.removeItem("cm_rates_url"); setUrl("")
clear ==
    /\ dialog.open
    /\ localStorage' = [key \in DOMAIN localStorage \ {RATES_KEY} |-> localStorage[key]]
    /\ dialog' = [dialog EXCEPT !.url = <<>>]
    /\ UNCHANGED <<variant, db, opens, backend, store, txq, adds, reps, clock, cv, charts,
                   app, form>>

\* Cancel: onClose()
SettingsCancel ==
    /\ dialog.open
    /\ dialog' = [dialog EXCEPT !.open = FALSE]
    /\ UNCHANGED <<variant, db, opens, backend, store, txq, adds, reps, clock, cv, charts,
                   localStorage, app, form>>

\* a report of December 2024 is requested
SettingsReport ==
    /\ Len(reps) < MaxSettingsReports
    /\ HasHandle
    /\ GetReportOn(DbApi, 2024, 12, "USD")

NextSettings ==
    \/ AppOpen
    \/ \E i \in 1..Len(opens) : OpenUpgradeNeeded(i) \/ OpenSuccess(i)
    \/ SettingsOpen
    \/ \E text \in UrlTexts : SettingsChange(text)
    \/ save
    \/ clear
    \/ SettingsCancel
    \/ SettingsReport
    \/ ReadSuccess
    \/ \E r \in 1..Len(reps) : FetchOk(r, ReferenceRates)
    \/ ChartsMount(2024, 12, "USD")
    \/ \E res \in ChartsResponses : ChartsRatesResponse(res)

SpecSettings == Init /\ [][NextSettings]_vars

\* the stored preference is a non-empty string
HasPreference == RATES_KEY \in DOMAIN localStorage /\ Len(localStorage[RATES_KEY]) > 0

\* the step sends the rate request of report build r
FetchSent(r) == r <= Len(reps) /\ reps[r].fetch = "none" /\ reps'[r].fetch = "inflight"

\* C21: after any sequence of Save and Reset, a rate request goes to the
\* stored preference when that is a non-empty string and to the fixed default
\* URL when there is no preference or it is empty (report builds and Charts
\* alike); and right after Reset the URL of the next fetch is the default.
C21_UrlOfNextFetch ==
    [][ /\ \A r \in 1..Len(reps') : FetchSent(r) =>
              reps'[r].url = IF HasPreference THEN localStorage[RATES_KEY]
                             ELSE DEFAULT_RATES_URL
        /\ (~charts.mounted /\ charts'.mounted) =>
              charts'.url = IF HasPreference THEN localStorage[RATES_KEY]
                            ELSE CHARTS_RATES_URL
        /\ (RATES_KEY \in DOMAIN localStorage /\ RATES_KEY \notin DOMAIN localStorage') =>
              getRatesUrl' = DEFAULT_RATES_URL /\ ChartsRatesUrl' = CHARTS_RATES_URL ]_vars

\* one build fetched from a saved URL that was typed with spaces around it, a
\* later one from the default after a blank text was saved, and a third
\* preference is stored now
C21_Witness ==
    /\ Len(reps) = 2
    /\ reps[1].url = <<"https://rates.example/usd">>
    /\ reps[2].url = DEFAULT_RATES_URL
    /\ reps[2].fetch = "ok"
    /\ RATES_KEY \in DOMAIN localStorage
    /\ localStorage[RATES_KEY] = <<>>
    /\ charts.url = <<"/my-rates">>

-----------------------------------------------------------------------------
(* The App component and its add-cost form *)

\* App is rendered for the first time, on the Add Cost tab: year and month are
\* those of new Date(), and the effect calls openCostsDB(DB_NAME, DB_VERSION)
AppMount ==
    /\ ~app.mounted
    /\ opens = <<>>
    /\ OpenRequest(DB_NAME)
    /\ app' = [NoApp EXCEPT !.mounted = TRUE, !.year = Today.year, !.month = Today.month,
                            !.openCall = Len(opens) + 1]
    /\ form' = [NoForm EXCEPT !.mounted = TRUE]
    /\ UNCHANGED <<variant, db, backend, store, txq, adds, reps, clock, cv, charts,
                   localStorage, dialog>>

\* the App state after the synchronous part of refreshReport() that reaches
\* getReport: setLoadingReport(true); setReportError(""); the call awaits
\* getReport call Len(reps) + 1
Refreshing(a, year, month, currency) ==
    [a EXCEPT !.loadingReport = TRUE, !.reportError = "",
              !.refreshes = Append(@, [call |-> Len(reps) + 1, year |-> year, month |-> month,
                                       currency |-> currency, state |-> "awaiting"])]

\* refreshReport() of the render that holds dbApi, year, month, currency, run
\* on the App state a
refreshReport(a, dbApi, year, month, currency) ==
    IF dbApi = 0
    THEN app' = a /\ UNCHANGED <<reps, txq>>
    ELSE app' = Refreshing(a, year, month, currency)
         /\ GetReportRequest(dbApi, year, month, currency)

\* await openCostsDB resolves: setDbApi(api); the selection effect then finds
\* dbApi changed and calls refreshReport()
SetDbApi ==
    /\ app.mounted
    /\ app.dbApi = 0
    /\ opens[app.openCall].state = "resolved"
    /\ refreshReport([app EXCEPT !.dbApi = app.openCall], app.openCall,
                     app.year, app.month, app.currency)
    /\ UNCHANGED <<variant, db, opens, backend, store, adds, clock, cv, charts,
                   localStorage, dialog, form>>

\* a tab is selected: AddCostForm is rendered on tab 0 only, and a form that
\* is rendered again starts from its initial state; the submit calls of the
\* form that went away still run to their end
SetTab(tab) ==
    /\ app.mounted
    /\ tab # app.tab
    /\ app' = [app EXCEPT !.tab = tab]
    /\ form' = [NoForm EXCEPT !.mounted = (tab = 0),
                              !.submits = [i \in 1..Len(form.submits) |->
                                              [form.submits[i] EXCEPT !.gone = TRUE]]]
    /\ UNCHANGED <<variant, db, opens, backend, store, txq, adds, reps, clock, cv, charts,
                   localStorage, dialog>>

\* setYear, setMonth or setCurrency from the Report tab; the selection effect
\* finds its dependencies changed and runs: if (dbApi) refreshReport()
SetSelection(year, month, currency) ==
    /\ app.mounted
    /\ app.tab = 1
    /\ <<year, month, currency>> # <<app.year, app.month, app.currency>>
    /\ refreshReport([app EXCEPT !.year = year, !.month = month, !.currency = currency],
                     app.dbApi, year, month, currency)
    /\ UNCHANGED <<variant, db, opens, backend, store, adds, clock, cv, charts,
                   localStorage, dialog, form>>

\* e?.message || fallback
MessageOr(message, fallback) == IF message = "" THEN fallback ELSE message

\* the await of refreshReport call i ends.  try: setReport(r); catch:
\* setReport(null), setReportError(...); finally: setLoadingReport(false)
RefreshDone(i) ==
    /\ app.refreshes[i].state = "awaiting"
    /\ LET rep == reps[app.refreshes[i].call]
       IN  /\ rep.state # "pending"
           /\ app' = [app EXCEPT
                        !.report = IF rep.state = "resolved" THEN rep.value ELSE NoValue,
                        !.reportError = IF rep.state = "resolved" THEN @
                                        ELSE MessageOr(rep.error, "Failed to build report."),
                        !.loadingReport = FALSE,
                        !.refreshes[i].state = "done"]
    /\ UNCHANGED <<variant, db, opens, backend, store, txq, adds, reps, clock, cv, charts,
                   localStorage, dialog, form>>

\* onChange of the Sum field.  disabled = !dbApi
SetSum(text) ==
    /\ form.mounted
    /\ app.dbApi # 0
    /\ form' = [form EXCEPT !.sum = text]
    /\ UNCHANGED <<variant, db, opens, backend, store, txq, adds, reps, clock, cv, charts,
                   localStorage, dialog, app>>

\* onChange of the Description field
SetDescription(text) ==
    /\ form.mounted
    /\ app.dbApi # 0
    /\ form' = [form EXCEPT !.description = text]
    /\ UNCHANGED <<variant, db, opens, backend, store, txq, adds, reps, clock, cv, charts,
                   localStorage, dialog, app>>

\* the check of the sum without its sign test
BadSumNotFinite(n) == ~IsFinite(n)

\* !Number.isFinite(n) || n <= 0
BadSum(n) == ~IsFinite(n) \/ Leq(n, Int2Num(0))

\* the form's validation: the message of the check that fails, or ""
Invalid(sum, description) ==
    IF BadSum(Number(sum)) THEN "Sum must be a positive number."
    ELSE IF Trim(description) = <<>> THEN "Description is required."
    ELSE ""

\* the Add button: submit() up to its await.  The submit call keeps the
\* onAdded of the render it was made in, with that render's selection
submit ==
    /\ form.mounted
    /\ app.dbApi # 0
    /\ LET message == Invalid(form.sum, form.description)
       IN  IF message # ""
           THEN /\ form' = [form EXCEPT !.status = [type |-> "error", msg |-> message]]
                /\ UNCHANGED <<adds, txq>>
           ELSE /\ AddCostRequest(app.dbApi,
                                  [sum |-> Number(form.sum), currency |-> form.currency,
                                   category |-> form.category,
                                   description |-> Trim(form.description)])
                /\ form' = [form EXCEPT
                              !.status = [type |-> "", msg |-> ""],
                              !.submits = Append(@, [call |-> Len(adds) + 1,
                                                     state |-> "awaiting", gone |-> FALSE,
                                                     dbApi |-> app.dbApi, year |-> app.year,
                                                     month |-> app.month,
                                                     currency |-> app.currency])]
    /\ UNCHANGED <<variant, db, opens, backend, store, reps, clock, cv, charts,
                   localStorage, dialog, app>>

\* the message of the error a failed add request carries
AddErrorMessage == "AddError"

\* the await of submit call i ends.  Resolved: the fields are cleared, the
\* status is success, and onAdded() runs refreshReport(); rejected: the status
\* is the error.  The state of a form that is no longer rendered is not touched
SubmitDone(i) ==
    /\ form.submits[i].state = "awaiting"
    /\ LET s   == form.submits[i]
           add == adds[s.call]
           f   == [form EXCEPT !.submits[i].state = "done"]
       IN  /\ add.state # "pending"
           /\ IF add.state = "resolved"
              THEN /\ form' = IF s.gone THEN f
                              ELSE [f EXCEPT !.sum = <<>>, !.description = <<>>,
                                             !.status = [type |-> "success",
                                                         msg |-> "Cost item added successfully."]]
                   /\ refreshReport(app, s.dbApi, s.year, s.month, s.currency)
              ELSE /\ form' = IF s.gone THEN f
                              ELSE [f EXCEPT !.status =
                                        [type |-> "error",
                                         msg |-> MessageOr(AddErrorMessage,
                                                           "Failed to add cost item.")]]
                   /\ UNCHANGED <<app, reps, txq>>
    /\ UNCHANGED <<variant, db, opens, backend, store, adds, clock, cv, charts,
                   localStorage, dialog>>

\* a promise App or the form awaits has settled: its continuation runs before
\* any other event is handled
ContinuationDue ==
    \/ app.mounted /\ app.dbApi = 0 /\ opens[app.openCall].state = "resolved"
    \/ \E i \in 1..Len(app.refreshes) :
          app.refreshes[i].state = "awaiting" /\ reps[app.refreshes[i].call].state # "pending"
    \/ \E i \in 1..Len(form.submits) :
          form.submits[i].state = "awaiting" /\ adds[form.submits[i].call].state # "pending"

Continuation ==
    \/ SetDbApi
    \/ \E i \in 1..Len(app.refreshes) : RefreshDone(i)
    \/ \E i \in 1..Len(form.submits) : SubmitDone(i)

-----------------------------------------------------------------------------
(* The form in use *)

MaxSubmits == 2

\* the texts typed into the Sum field
SumTexts ==
    { <<>>,
      <<"a", "b", "c">>,
      <<"-", "5">>,
      <<"0">>,
      <<Space, "1", "0", "0">>,
      <<"1", "e", "9", "9", "9">> }

\* the texts typed into the Description field
DescriptionTexts == { <<>>, <<Space>>, <<Space, "lunch", Space>> }

\* the Add button is pressed
FormSubmit ==
    /\ Len(form.submits) < MaxSubmits
    /\ submit

NextForm ==
    \/ ContinuationDue /\ Continuation
    \/ ~ContinuationDue /\ AppMount
    \/ ~ContinuationDue /\ \E i \in 1..Len(opens) : OpenUpgradeNeeded(i)
    \/ ~ContinuationDue /\ \E i \in 1..Len(opens) : OpenSuccess(i)
    \/ ~ContinuationDue /\ \E i \in 1..Len(opens) : OpenError(i)
    \/ ~ContinuationDue /\ \E text \in SumTexts : SetSum(text)
    \/ ~ContinuationDue /\ \E text \in DescriptionTexts : SetDescription(text)
    \/ ~ContinuationDue /\ FormSubmit
    \/ ~ContinuationDue /\ AddReqSuccess
    \/ ~ContinuationDue /\ AddReqError
    \/ ~ContinuationDue /\ TxCommit
    \/ ~ContinuationDue /\ TxAbort
    \/ ~ContinuationDue /\ ReadSuccess
    \/ ~ContinuationDue /\ \E r \in 1..Len(reps) : FetchOk(r, ReferenceRates)

SpecForm == Init /\ [][NextForm]_vars

\* the fields of the form do not make a cost item: the sum is not a finite
\* number above zero, or the description is empty after trimming
FieldsInvalid ==
    LET n == Number(form.sum)
    IN  ~IsFinite(n) \/ n.n <= 0 \/ Trim(form.description) = <<>>

\* C23: the form never calls addCost with a sum that is not finite or is <= 0,
\* nor with a description that is empty after trimming; and a submit with such
\* fields sets an error status, makes no store call and starts no refresh.
C23_ValidatingCaller ==
    [][ /\ \A i \in (Len(adds) + 1)..Len(adds') :
              /\ IsFinite(adds'[i].item.sum)
              /\ adds'[i].item.sum.n > 0
              /\ Trim(adds'[i].item.description) # <<>>
        /\ (submit /\ FieldsInvalid) =>
              /\ form'.status.type = "error"
              /\ form'.status.msg # ""
              /\ adds' = adds /\ txq' = txq
              /\ app' = app /\ reps' = reps ]_vars

\* after one item was added through the form, a submit with the sum "-5" was
\* turned down and a blank description is in the field
C23_Witness ==
    /\ Len(adds) = 1
    /\ adds[1].item.sum = Int2Num(100)
    /\ adds[1].item.description = <<"lunch">>
    /\ form.sum = <<"-", "5">>
    /\ form.description = <<Space>>
    /\ form.status = [type |-> "error", msg |-> "Sum must be a positive number."]

\* the step ends the await of refreshReport call i
RefreshEnds(i) ==
    i <= Len(app.refreshes) /\ app.refreshes[i].state = "awaiting"
        /\ app'.refreshes[i].state = "done"

\* the record the store keeps of item
InStore(item) ==
    \E k \in 1..Len(store[DB_NAME]) :
        store[DB_NAME][k] = Stored(item, store[DB_NAME][k].id)

\* costs lists item
Lists(costs, item) ==
    \E j \in 1..Len(costs) :
        /\ costs[j].sum = item.sum /\ costs[j].currency = item.currency
        /\ costs[j].category = item.category /\ costs[j].description = item.description

\* C24 (as claimed, its first half): the first report that settles after an
\* insertion through the form has succeeded, for the month of that insertion,
\* lists the inserted item.  Stated for insertions that are in the store, so
\* that a violation does not rest on a transaction that failed to commit.
C24_NextReportHasItem ==
    [][ \A i \in 1..Len(app.refreshes), s \in 1..Len(form.submits) :
          LET rep  == reps[app.refreshes[i].call]
              add  == adds[form.submits[s].call]
          IN  ( /\ RefreshEnds(i)
                /\ \A j \in 1..Len(app.refreshes) : app.refreshes[j].state # "done"
                /\ rep.state = "resolved"
                /\ add.state = "resolved"
                /\ InStore(add.item)
                /\ <<rep.year, rep.month>> = <<add.item.year, add.item.month>> )
              => Lists(app'.report.costs, add.item) ]_vars

\* the second half, for a form that stays rendered (no tab change): when
\* addCost fails, the end of the submit call starts no refresh, leaves the
\* fields as they are and sets an error status
C24_FailureHalf ==
    [][ \A s \in 1..Len(form.submits) :
          ( /\ form.submits[s].state = "awaiting" /\ form'.submits[s].state = "done"
            /\ adds[form.submits[s].call].state = "rejected" )
          => /\ app' = app /\ reps' = reps
             /\ form'.sum = form.sum /\ form'.description = form.description
             /\ form'.status.type = "error" /\ form'.status.msg # "" ]_vars

\* C25: no store operation runs before the store is open.  Every addCost and
\* getReport call was made on the handle of an open that succeeded, with the
\* connection set; App holds a handle only of a successful open, and while it
\* holds none it has started no report, the form has made no call and its
\* fields are untouched; an open that failed has yielded no handle.
C25_NoOperationBeforeOpen ==
    /\ \A i \in 1..Len(adds) : opens[adds[i].handle].state = "resolved"
    /\ \A i \in 1..Len(reps) :
          opens[reps[i].handle].state = "resolved" /\ reps[i].conn \in DbNames
    /\ \A t \in 1..Len(txq) : txq[t].conn \in DbNames
    /\ (adds # <<>> \/ reps # <<>>) => db \in DbNames
    /\ app.dbApi # 0 => opens[app.dbApi].state = "resolved"
    /\ app.dbApi = 0 =>
          /\ app.refreshes = <<>> /\ ~app.loadingReport /\ app.report = NoValue
          /\ form.submits = <<>> /\ form.sum = <<>> /\ form.description = <<>>
          /\ adds = <<>> /\ reps = <<>>
    /\ \A i \in 1..Len(opens) : opens[i].state = "rejected" =>
          /\ app.dbApi # i
          /\ \A j \in 1..Len(adds) : adds[j].handle # i
          /\ \A j \in 1..Len(reps) : reps[j].handle # i

\* App holds the handle of its open, has a report, and an item added through
\* the form is in the store
C25_Witness ==
    /\ app.dbApi # 0
    /\ app.report # NoValue
    /\ Len(store[DB_NAME]) = 1
    /\ Len(form.submits) = 1

-----------------------------------------------------------------------------
(* The App in use: tabs, selections, insertions and overlapping refreshes *)

MaxSelections == 1

MaxAppSubmits == 1

\* the tabs used: Add Cost and Report
AppTabs == {0, 1}

\* the selections made on the Report tab
AppSelections == { <<2024, 12, "ILS">>, <<2025, 11, "USD">> }

\* a selection is made
Select(year, month, currency) ==
    /\ Len(app.refreshes) < 1 + MaxSelections + Len(form.submits)
    /\ SetSelection(year, month, currency)

\* the sum is typed into the empty form
TypeSum ==
    /\ form.sum = <<>>
    /\ form.submits = <<>>
    /\ SetSum(<<"1", "0", "0">>)

\* the description is typed into the form
TypeDescription ==
    /\ form.sum # <<>>
    /\ form.description = <<>>
    /\ SetDescription(<<"lunch">>)

\* the Add button is pressed on the filled-in form
AppSubmit ==
    /\ Len(form.submits) < MaxAppSubmits
    /\ form.description # <<>>
    /\ submit

NextApp ==
    \/ ContinuationDue /\ Continuation
    \/ ~ContinuationDue /\ AppMount
    \/ ~ContinuationDue /\ \E i \in 1..Len(opens) : OpenUpgradeNeeded(i)
    \/ ~ContinuationDue /\ \E i \in 1..Len(opens) : OpenSuccess(i)
    \/ ~ContinuationDue /\ \E i \in 1..Len(opens) : OpenError(i)
    \/ ~ContinuationDue /\ \E tab \in AppTabs : SetTab(tab)
    \/ ~ContinuationDue /\ \E s \in AppSelections : Select(s[1], s[2], s[3])
    \/ ~ContinuationDue /\ TypeSum
    \/ ~ContinuationDue /\ TypeDescription
    \/ ~ContinuationDue /\ AppSubmit
    \/ ~ContinuationDue /\ AddReqSuccess
    \/ ~ContinuationDue /\ AddReqError
    \/ ~ContinuationDue /\ TxCommit
    \/ ~ContinuationDue /\ TxAbort
    \/ ~ContinuationDue /\ ReadSuccess
    \/ ~ContinuationDue /\ ReadError
    \/ ~ContinuationDue /\ \E r \in 1..Len(reps) : FetchOk(r, ReferenceRates)
    \/ ~ContinuationDue /\ \E r \in 1..Len(reps) : FetchFail(r)

SpecApp == Init /\ [][NextApp]_vars

\* every refreshReport call App has started has run to its end
AllRefreshesDone ==
    /\ app.refreshes # <<>>
    /\ \A i \in 1..Len(app.refreshes) : app.refreshes[i].state = "done"

\* C22 (as claimed): once every report request started by a selection change
\* or an insertion has settled, the report App holds is the report of the
\* selected year, month and currency.  Stated for runs in which every request
\* resolved with a report, so that a violation does not rest on a failure.
C22_ReportOfSelection ==
    ( /\ AllRefreshesDone
      /\ \A r \in 1..Len(reps) : reps[r].state = "resolved"
      /\ app.report # NoValue ) =>
        <<app.report.year, app.report.month, app.report.total.currency>>
            = <<app.year, app.month, app.currency>>

\* C27 (as claimed): loadingReport is true whenever a report request started
\* by refreshReport is still pending, and App never holds a report together
\* with a non-empty report error.
C27_LoadingAndErrorFlags ==
    /\ (\E i \in 1..Len(app.refreshes) :
           app.refreshes[i].state = "awaiting"
               /\ reps[app.refreshes[i].call].state = "pending")
       => app.loadingReport
    /\ ~(app.report # NoValue /\ app.reportError # "")

\* a backend or network event is delivered, or a continuation runs
Delivery ==
    \/ ContinuationDue /\ Continuation
    \/ ~ContinuationDue /\
          \/ \E i \in 1..Len(opens) : OpenUpgradeNeeded(i) \/ OpenSuccess(i) \/ OpenError(i)
          \/ AddReqSuccess \/ AddReqError
          \/ TxCommit \/ TxAbort
          \/ ReadSuccess \/ ReadError
          \/ \E r \in 1..Len(reps) : FetchOk(r, ReferenceRates) \/ FetchFail(r)

\* the App under fair delivery: an event that can be delivered is delivered
\* in the end, whatever the user does or does not do
SpecAppFair == SpecApp /\ WF_vars(Delivery)

\* C26 (as claimed): under fair delivery every refresh ends: whenever
\* loadingReport is true it becomes false later, App then holding a report or
\* a non-empty error message.
C26_RefreshFinishes ==
    app.loadingReport ~>
        (~app.loadingReport /\ (app.report # NoValue \/ app.reportError # ""))

\* nothing is left to deliver: no open or transaction is pending, no rate
\* request is in flight and no continuation is due
Quiescent ==
    /\ \A i \in 1..Len(opens) : opens[i].state # "pending"
    /\ txq = <<>>
    /\ \A r \in 1..Len(reps) : reps[r].phase # "fetching"
    /\ ~ContinuationDue

\* the same in finite runs, for the vanilla wrapper: once everything has been
\* delivered, no refresh is left loading, and App holds a report or an error
C26_VanillaFinishes ==
    (variant = "vanilla" /\ Quiescent /\ app.refreshes # <<>>) =>
        /\ ~app.loadingReport
        /\ app.report # NoValue \/ app.reportError # ""

====
